---------------------------- MODULE Spec2Model ----------------------------
(***************************************************************************)
(* A model of src/app.py: the document analysis pipeline of the Flask      *)
(* application (upload validation, text extraction, the call to Gemini,    *)
(* the cleaning and expansion of its answer, the heuristic fallback and    *)
(* the shaping of the HTTP response).                                      *)
(*                                                                         *)
(* Representation of Python values.                                        *)
(*   - A Python str is a sequence of one-character strings, so that        *)
(*     len, lower, strip, split, count, startswith, endswith, replace and  *)
(*     the JSON scanner work on characters as the code does.  A text the   *)
(*     code only passes along (a fixed message, a fixed question) is       *)
(*     written as a sequence holding one multi-character string: a run of  *)
(*     ordinary characters (no quote, no backslash, no control character)  *)
(*     that no operation of the program looks into.                        *)
(*   - A value handled by the json module is a record [t, v]: t is the     *)
(*     Python type and v the payload (see the J... constructors).          *)
(***************************************************************************)
EXTENDS Integers, Sequences, FiniteSets

(***************************************************************************)
(* Characters                                                              *)
(***************************************************************************)
QUOTE == "\""
BS == "\\"
NL == "\n"
TAB == "\t"
\* The character U+0060.  SANY cannot read a string literal that ends with it,
\* so the character is written by name.
BACKTICK == "<backtick>"
\* Characters str.strip() and str.split() treat as whitespace.
PyWhitespace == {" ", "\t", "\n", "\r", "\f"}
\* Characters the JSON scanner skips between tokens.
JsonWhitespace == {" ", "\t", "\n", "\r"}
Digits == <<"0", "1", "2", "3", "4", "5", "6", "7", "8", "9">>
UpperLetters == <<"A", "B", "C", "D", "E", "F", "G", "H", "I", "J", "K", "L", "M", "N", "O", "P", "Q", "R", "S", "T", "U", "V", "W", "X", "Y", "Z">>
LowerLetters == <<"a", "b", "c", "d", "e", "f", "g", "h", "i", "j", "k", "l", "m", "n", "o", "p", "q", "r", "s", "t", "u", "v", "w", "x", "y", "z">>

Min(S) == CHOOSE x \in S : \A y \in S : x <= y
Max(S) == CHOOSE x \in S : \A y \in S : x >= y

\* s[i], or "" (no character) outside the string.
At(s, i) == IF i \in 1..Len(s) THEN s[i] ELSE ""

IndexIn(alphabet, c) == CHOOSE i \in 1..Len(alphabet) : alphabet[i] = c
IsIn(alphabet, c) == \E i \in 1..Len(alphabet) : alphabet[i] = c

(***************************************************************************)
(* Python str methods                                                      *)
(***************************************************************************)
LowerChar(c) == IF IsIn(UpperLetters, c) THEN LowerLetters[IndexIn(UpperLetters, c)] ELSE c
UpperChar(c) == IF IsIn(LowerLetters, c) THEN UpperLetters[IndexIn(LowerLetters, c)] ELSE c

\* str.lower()
lower(s) == [i \in 1..Len(s) |-> LowerChar(s[i])]

\* str.capitalize(): first character upper-cased, the rest lower-cased.
capitalize(s) == [i \in 1..Len(s) |-> IF i = 1 THEN UpperChar(s[i]) ELSE LowerChar(s[i])]

\* str.startswith(p), str.endswith(p)
startswith(s, p) == Len(p) <= Len(s) /\ SubSeq(s, 1, Len(p)) = p
endswith(s, p) == Len(p) <= Len(s) /\ SubSeq(s, Len(s) - Len(p) + 1, Len(s)) = p

\* The positions at which p occurs in s.
Occurrences(s, p) == {i \in 1..(Len(s) - Len(p) + 1) : SubSeq(s, i, i + Len(p) - 1) = p}

\* p in s
contains(s, p) == Occurrences(s, p) # {}

\* str.count(c) for a single character c.
count(s, c) == Cardinality({i \in 1..Len(s) : s[i] = c})

\* The first position at or after i, and the last at or before j, that holds
\* no whitespace.
RECURSIVE SkipSpace(_, _), SkipSpaceBack(_, _)
SkipSpace(s, i) == IF At(s, i) \in PyWhitespace THEN SkipSpace(s, i + 1) ELSE i
SkipSpaceBack(s, j) == IF At(s, j) \in PyWhitespace THEN SkipSpaceBack(s, j - 1) ELSE j

\* str.strip(): without leading and trailing whitespace.
strip(s) == SubSeq(s, SkipSpace(s, 1), SkipSpaceBack(s, Len(s)))

\* str.replace(old, new): every non-overlapping occurrence of old, left to right.
RECURSIVE replace(_, _, _)
replace(s, old, new) ==
    LET occ == Occurrences(s, old)
    IN IF occ = {} \/ old = <<>> THEN s
       ELSE LET i == Min(occ)
            IN SubSeq(s, 1, i - 1) \o new \o replace(SubSeq(s, i + Len(old), Len(s)), old, new)

\* Where the tokens of str.split() start: a non-whitespace character that
\* follows whitespace or begins the string.
TokenStarts(s) == {i \in 1..Len(s) : s[i] \notin PyWhitespace /\ (i = 1 \/ s[i - 1] \in PyWhitespace)}

\* The last character of the token that starts at i.
TokenEnd(s, i) == Min({j \in i..Len(s) : j = Len(s) \/ s[j + 1] \in PyWhitespace})

\* len(s.split()): the number of whitespace-delimited tokens.
SplitLen(s) == Cardinality(TokenStarts(s))

\* set(s.split()): the distinct tokens.
SplitSet(s) == {SubSeq(s, i, TokenEnd(s, i)) : i \in TokenStarts(s)}

(***************************************************************************)
(* Values of the json module                                               *)
(***************************************************************************)
JInt(n) == [t |-> "int", v |-> n]
\* A float with a finite decimal expansion: m / 10^e, e >= 1, written as
\* Python's repr writes it (no trailing zero beyond the first decimal).
JFloat(m, e) == [t |-> "float", v |-> <<m, e>>]
JStr(s) == [t |-> "str", v |-> s]
JBool(b) == [t |-> "bool", v |-> b]
JNone == [t |-> "NoneType", v |-> 0]
JList(items) == [t |-> "list", v |-> items]
\* A dict is the sequence of its <<key, value>> pairs in insertion order.
JDict(items) == [t |-> "dict", v |-> items]

RECURSIVE Pow10(_)
Pow10(e) == IF e = 0 THEN 1 ELSE 10 * Pow10(e - 1)

\* dict.get(key, default)
DictGet(d, key, default) ==
    IF \E i \in 1..Len(d.v) : d.v[i][1] = key
    THEN d.v[CHOOSE i \in 1..Len(d.v) : d.v[i][1] = key][2]
    ELSE default

DictHas(d, key) == \E i \in 1..Len(d.v) : d.v[i][1] = key

\* d[key] = val on a list of pairs: an existing key keeps its place.
DictSet(items, key, val) ==
    IF \E i \in 1..Len(items) : items[i][1] = key
    THEN [i \in 1..Len(items) |-> IF items[i][1] = key THEN <<key, val>> ELSE items[i]]
    ELSE Append(items, <<key, val>>)

(***************************************************************************)
(* json.loads: a scanner for the JSON grammar as Python's decoder reads it *)
(* (strict mode).  Covered: objects, arrays, strings with the escapes      *)
(* \" \\ \/ \n \t \r \f, integers, decimal fractions, true, false, null,   *)
(* whitespace between tokens.  Not covered, and never fed to it here:      *)
(* \b and \uXXXX escapes, exponents, NaN and Infinity.                      *)
(* A scan result is [ok, val, next]: next is the position after the value. *)
(***************************************************************************)
ScanOk(val, next) == [ok |-> TRUE, val |-> val, next |-> next]
ScanFail == [ok |-> FALSE, val |-> JNone, next |-> 0]

\* The first position at or after i that holds no JSON whitespace.
RECURSIVE SkipWs(_, _)
SkipWs(s, i) == IF At(s, i) \in JsonWhitespace THEN SkipWs(s, i + 1) ELSE i

\* The number of consecutive backslashes that end at position j.
RECURSIVE BackslashRun(_, _)
BackslashRun(s, j) == IF At(s, j) = BS THEN 1 + BackslashRun(s, j - 1) ELSE 0

\* Position j is the second character of an escape sequence.
Escaped(s, j) == BackslashRun(s, j - 1) % 2 = 1

\* Characters a JSON string may not hold unescaped (strict mode).
ControlChars == {"\n", "\t", "\r", "\f"}
EscapeChars == {QUOTE, BS, "/", "n", "t", "r", "f"}
EscapeValue(c) ==
    CASE c = "n" -> "\n" [] c = "t" -> "\t" [] c = "r" -> "\r" [] c = "f" -> "\f" [] OTHER -> c

\* The quote that closes a string literal, looked for from position j on: the
\* first one that no backslash escapes; 0 when there is none.
RECURSIVE ClosingQuote(_, _)
ClosingQuote(s, j) ==
    IF j > Len(s) THEN 0
    ELSE IF s[j] = BS THEN ClosingQuote(s, j + 2)
    ELSE IF s[j] = QUOTE THEN j
    ELSE ClosingQuote(s, j + 1)

\* The string literal that opens with the quote at position i.
ScanString(s, i) ==
    LET close == ClosingQuote(s, i + 1)
        body == (i + 1)..(close - 1)
        valid == \A j \in body : /\ s[j] \notin ControlChars
                                 /\ (Escaped(s, j) => s[j] \in EscapeChars)
        kept == {j \in body : ~(s[j] = BS /\ ~Escaped(s, j))}
        nth(k) == CHOOSE j \in kept : Cardinality({x \in kept : x <= j}) = k
        chars == [k \in 1..Cardinality(kept) |->
                    IF Escaped(s, nth(k)) THEN EscapeValue(s[nth(k)]) ELSE s[nth(k)]]
    IN IF close = 0 \/ ~valid THEN ScanFail ELSE ScanOk(JStr(chars), close + 1)

RECURSIVE DigitsValue(_)
DigitsValue(d) ==
    IF d = <<>> THEN 0
    ELSE 10 * DigitsValue(SubSeq(d, 1, Len(d) - 1)) + (IndexIn(Digits, d[Len(d)]) - 1)

\* repr of a float drops trailing zeros but keeps one decimal.
RECURSIVE CanonFloat(_, _)
CanonFloat(m, e) == IF e > 1 /\ m % 10 = 0 THEN CanonFloat(m \div 10, e - 1) ELSE JFloat(m, e)

NumberChars == {Digits[i] : i \in 1..Len(Digits)} \cup {"-", "."}

\* The first position at or after i that holds no character of a number.
RECURSIVE NumberEnd(_, _)
NumberEnd(s, i) == IF At(s, i) \in NumberChars THEN NumberEnd(s, i + 1) ELSE i

\* The number that starts at position i: -?(0|[1-9][0-9]*)(.[0-9]+)?
ScanNumber(s, i) ==
    LET end == NumberEnd(s, i)
        lex == SubSeq(s, i, end - 1)
        neg == lex[1] = "-"
        body == IF neg THEN Tail(lex) ELSE lex
        dots == {j \in 1..Len(body) : body[j] = "."}
        dot == IF dots = {} THEN Len(body) + 1 ELSE Min(dots)
        int == SubSeq(body, 1, dot - 1)
        frac == SubSeq(body, dot + 1, Len(body))
        valid == /\ Cardinality(dots) <= 1
                 /\ \A j \in 1..Len(body) : body[j] # "-"
                 /\ int # <<>>
                 /\ (Len(int) > 1 => int[1] # "0")
                 /\ (dots # {} => frac # <<>>)
        sign == IF neg THEN -1 ELSE 1
    IN IF ~valid THEN ScanFail
       ELSE IF dots = {} THEN ScanOk(JInt(sign * DigitsValue(int)), end)
       ELSE ScanOk(CanonFloat(sign * DigitsValue(int \o frac), Len(frac)), end)

ScanLiteral(s, i, word, val) ==
    IF SubSeq(s, i, Min({Len(s), i + Len(word) - 1})) = word THEN ScanOk(val, i + Len(word)) ELSE ScanFail

RECURSIVE ScanValue(_, _), ScanElements(_, _, _), ScanMembers(_, _, _)
\* The value that starts at position i (whitespace already skipped).
ScanValue(s, i) ==
    LET c == At(s, i)
    IN CASE c = QUOTE -> ScanString(s, i)
         [] c = "[" -> LET j == SkipWs(s, i + 1)
                       IN IF At(s, j) = "]" THEN ScanOk(JList(<<>>), j + 1)
                          ELSE ScanElements(s, j, <<>>)
         [] c = "{" -> LET j == SkipWs(s, i + 1)
                       IN IF At(s, j) = "}" THEN ScanOk(JDict(<<>>), j + 1)
                          ELSE ScanMembers(s, j, <<>>)
         [] c = "t" -> ScanLiteral(s, i, <<"t", "r", "u", "e">>, JBool(TRUE))
         [] c = "f" -> ScanLiteral(s, i, <<"f", "a", "l", "s", "e">>, JBool(FALSE))
         [] c = "n" -> ScanLiteral(s, i, <<"n", "u", "l", "l">>, JNone)
         [] c = "-" \/ IsIn(Digits, c) -> ScanNumber(s, i)
         [] OTHER -> ScanFail

\* An array from its element at position i on, r being the scan of that
\* element and acc the elements read before it.
AfterElement(s, r, acc) ==
    IF ~r.ok THEN ScanFail
    ELSE IF At(s, SkipWs(s, r.next)) = ","
    THEN ScanElements(s, SkipWs(s, SkipWs(s, r.next) + 1), Append(acc, r.val))
    ELSE IF At(s, SkipWs(s, r.next)) = "]"
    THEN ScanOk(JList(Append(acc, r.val)), SkipWs(s, r.next) + 1)
    ELSE ScanFail

ScanElements(s, i, acc) == AfterElement(s, ScanValue(s, i), acc)

\* An object from the member at position i on, k being the scan of its key,
\* r of its value and acc the members read before it; a repeated key keeps
\* the last value.
AfterMember(s, k, r, acc) ==
    IF ~r.ok THEN ScanFail
    ELSE IF At(s, SkipWs(s, r.next)) = ","
    THEN ScanMembers(s, SkipWs(s, SkipWs(s, r.next) + 1), DictSet(acc, k.val.v, r.val))
    ELSE IF At(s, SkipWs(s, r.next)) = "}"
    THEN ScanOk(JDict(DictSet(acc, k.val.v, r.val)), SkipWs(s, r.next) + 1)
    ELSE ScanFail

AfterKey(s, k, acc) ==
    IF ~k.ok \/ At(s, SkipWs(s, k.next)) # ":" THEN ScanFail
    ELSE AfterMember(s, k, ScanValue(s, SkipWs(s, SkipWs(s, k.next) + 1)), acc)

ScanMembers(s, i, acc) ==
    IF At(s, i) # QUOTE THEN ScanFail ELSE AfterKey(s, ScanString(s, i), acc)

\* json.loads after the scan r of the first value: nothing but whitespace
\* may follow it.
WholeText(s, r) ==
    IF r.ok /\ SkipWs(s, r.next) = Len(s) + 1
    THEN [ok |-> TRUE, val |-> r.val]
    ELSE [ok |-> FALSE, val |-> JNone]

\* json.loads(s): [ok, val]; ok is FALSE where Python raises JSONDecodeError.
json_loads(s) == WholeText(s, ScanValue(s, SkipWs(s, 1)))

(***************************************************************************)
(* json.dumps with its default separators (", " and ": ").  A character    *)
(* outside ASCII, which json.dumps writes as \uXXXX and json.loads reads   *)
(* back as the character, is kept as it is on both sides: the program      *)
(* hands the output of json.dumps to json.loads and to nothing else.       *)
(***************************************************************************)
RECURSIVE IntDigits(_)
IntDigits(n) == IF n < 10 THEN <<Digits[n + 1]>> ELSE IntDigits(n \div 10) \o <<Digits[(n % 10) + 1]>>

DumpInt(n) == IF n < 0 THEN <<"-">> \o IntDigits(-n) ELSE IntDigits(n)

DumpFloat(m, e) ==
    LET a == IF m < 0 THEN -m ELSE m
        frac == IntDigits(a % Pow10(e))
        zeros == [i \in 1..(e - Len(frac)) |-> "0"]
    IN (IF m < 0 THEN <<"-">> ELSE <<>>) \o IntDigits(a \div Pow10(e)) \o <<".">> \o zeros \o frac

EscapeChar(c) ==
    CASE c = QUOTE -> <<BS, QUOTE>>
      [] c = BS -> <<BS, BS>>
      [] c = "\n" -> <<BS, "n">>
      [] c = "\t" -> <<BS, "t">>
      [] c = "\r" -> <<BS, "r">>
      [] c = "\f" -> <<BS, "f">>
      [] OTHER -> <<c>>

\* A string literal: the quotes and every character escaped as needed.
DumpStr(s) ==
    LET two == {i \in 1..Len(s) : Len(EscapeChar(s[i])) = 2}
        start(i) == i + Cardinality({j \in two : j < i})
        src(k) == CHOOSE i \in 1..Len(s) : start(i) <= k /\ k < start(i) + Len(EscapeChar(s[i]))
        body == [k \in 1..(Len(s) + Cardinality(two)) |-> EscapeChar(s[src(k)])[k - start(src(k)) + 1]]
    IN <<QUOTE>> \o body \o <<QUOTE>>

RECURSIVE json_dumps(_), DumpItems(_, _), DumpPairs(_, _)
json_dumps(x) ==
    CASE x.t = "int" -> DumpInt(x.v)
      [] x.t = "float" -> DumpFloat(x.v[1], x.v[2])
      [] x.t = "str" -> DumpStr(x.v)
      [] x.t = "bool" -> IF x.v THEN <<"t", "r", "u", "e">> ELSE <<"f", "a", "l", "s", "e">>
      [] x.t = "NoneType" -> <<"n", "u", "l", "l">>
      [] x.t = "list" -> <<"[">> \o DumpItems(x.v, 1) \o <<"]">>
      [] x.t = "dict" -> <<"{">> \o DumpPairs(x.v, 1) \o <<"}">>

DumpItems(items, k) ==
    IF k > Len(items) THEN <<>>
    ELSE (IF k > 1 THEN <<",", " ">> ELSE <<>>) \o json_dumps(items[k]) \o DumpItems(items, k + 1)

DumpPairs(items, k) ==
    IF k > Len(items) THEN <<>>
    ELSE (IF k > 1 THEN <<",", " ">> ELSE <<>>) \o DumpStr(items[k][1]) \o <<":", " ">>
         \o json_dumps(items[k][2]) \o DumpPairs(items, k + 1)

(***************************************************************************)
(* Configuration (app.py, lines 25-27)                                     *)
(***************************************************************************)
MAX_FILE_SIZE == 10 * 1024 * 1024
ALLOWED_EXTENSIONS == {<<".", "t", "x", "t">>, <<".", "d", "o", "c", "x">>, <<".", "p", "d", "f">>, <<".", "j", "p", "g">>, <<".", "j", "p", "e", "g">>, <<".", "p", "n", "g">>, <<".", "b", "m", "p">>, <<".", "t", "i", "f", "f">>}
IMAGE_EXTENSIONS == {<<".", "j", "p", "g">>, <<".", "j", "p", "e", "g">>, <<".", "p", "n", "g">>, <<".", "b", "m", "p">>, <<".", "t", "i", "f", "f">>}
\* The value of GOOGLE_API_KEY that the code treats as not configured.
PLACEHOLDER_KEY == <<"t", "u", "_", "a", "p", "i", "_", "k", "e", "y", "_", "a", "q", "u", "i">>

(***************************************************************************)
(* allowed_file                                                            *)
(***************************************************************************)
allowed_file(filename) == \E ext \in ALLOWED_EXTENSIONS : endswith(lower(filename), ext)

(***************************************************************************)
(* Text statistics shared by both report builders                          *)
(***************************************************************************)
\* Integer division rounded half to even.
RoundHalfEven(num, den) ==
    LET q == num \div den
        r == num % den
    IN IF 2 * r < den THEN q
       ELSE IF 2 * r > den THEN q + 1
       ELSE IF q % 2 = 0 THEN q ELSE q + 1

\* round(len(set(texto.split())) / len(texto.split()) * 100, 1) if texto.split() else 0
\* The float is held in tenths; a tie of the exact quotient is rounded half
\* to even.
densidad_vocabulario(texto) ==
    IF SplitLen(texto) = 0 THEN JInt(0)
    ELSE JFloat(RoundHalfEven(1000 * Cardinality(SplitSet(texto)), SplitLen(texto)), 1)

(***************************************************************************)
(* analisis_fallback: the heuristic scorer                                 *)
(***************************************************************************)
PREGUNTAS_FALLBACK ==
    << JStr(<<"¿Puedes explicar el tema principal con tus propias palabras?">>),
       JStr(<<"Dame un ejemplo relacionado con tu entorno.">>),
       JStr(<<"¿Qué parte te costó más entender de este trabajo?">>) >>

\* The indicator the education level adds (it adds nothing to the score).
IndicadorNivel(nivel_educativo) ==
    IF nivel_educativo \in {<<"b", "a", "s", "i", "c", "a", "-", "1", "-", "4">>, <<"b", "a", "s", "i", "c", "a", "-", "5", "-", "8">>}
    THEN JStr(<<"Análisis básico para nivel ">> \o nivel_educativo)
    ELSE IF nivel_educativo \in {<<"m", "e", "d", "i", "o", "-", "1", "-", "2">>, <<"m", "e", "d", "i", "o", "-", "3", "-", "4">>}
    THEN JStr(<<"Análisis para educación media">>)
    ELSE JStr(<<"Análisis automático básico">>)

\* A faulty variant of RatioBelow06: a ratio of exactly 0.6 counts as
\* repetition.
RatioHasta06(palabras_unicas, total) == 10 * palabras_unicas <= 6 * total

\* ratio < 0.6 for ratio = palabras_unicas / len(palabras): the float
\* comparison agrees with the exact one for every text shorter than 10^15
\* words.
RatioBelow06(palabras_unicas, total) == 10 * palabras_unicas < 6 * total

analisis_fallback(texto, nivel_educativo) ==
    LET corto == Len(texto) < 100
        pocos_puntos == count(texto, ".") < 3
        vocabulario == Cardinality(SplitSet(texto)) < 15
        repetitivo == SplitLen(texto) > 10 /\ RatioBelow06(Cardinality(SplitSet(texto)), SplitLen(texto))
        indicadores ==
            (IF corto THEN <<JStr(<<"Texto muy corto">>)>> ELSE <<>>)
            \o (IF pocos_puntos THEN <<JStr(<<"Pocos puntos (posible copia)">>)>> ELSE <<>>)
            \o (IF vocabulario THEN <<JStr(<<"Vocabulario limitado">>)>> ELSE <<>>)
            \o (IF repetitivo THEN <<JStr(<<"Mucha repetición de palabras">>)>> ELSE <<>>)
            \o <<IndicadorNivel(nivel_educativo)>>
        porcentaje == 50 + (IF corto THEN 20 ELSE 0) + (IF pocos_puntos THEN 15 ELSE 0)
                         + (IF vocabulario THEN 15 ELSE 0) + (IF repetitivo THEN 20 ELSE 0)
        nivel == IF porcentaje < 50 THEN <<"b", "a", "j", "o">> ELSE IF porcentaje < 75 THEN <<"m", "e", "d", "i", "o">> ELSE <<"a", "l", "t", "o">>
        color == IF nivel = <<"b", "a", "j", "o">> THEN <<"g", "r", "e", "e", "n">> ELSE IF nivel = <<"m", "e", "d", "i", "o">> THEN <<"y", "e", "l", "l", "o", "w">> ELSE <<"r", "e", "d">>
    IN JDict(<< <<<<"p", "o", "r", "c", "e", "n", "t", "a", "j", "e">>, JInt(IF porcentaje < 100 THEN porcentaje ELSE 100)>>,
                <<<<"c", "o", "l", "o", "r">>, JStr(color)>>,
                <<<<"l", "a", "b", "e", "l">>, JStr(capitalize(nivel))>>,
                <<<<"i", "n", "d", "i", "c", "a", "d", "o", "r", "e", "s">>, JList(IF indicadores # <<>> THEN indicadores
                                        ELSE <<JStr(<<"Análisis automático básico">>)>>)>>,
                <<<<"p", "r", "e", "g", "u", "n", "t", "a", "s">>, JList(PREGUNTAS_FALLBACK)>>,
                <<<<"f", "i", "l", "e", "n", "a", "m", "e">>, JStr(<<>>)>>,
                <<<<"a", "n", "a", "l", "i", "z", "a", "d", "o", "_", "c", "o", "n", "_", "i", "a">>, JBool(FALSE)>>,
                <<<<"n", "i", "v", "e", "l", "_", "e", "d", "u", "c", "a", "t", "i", "v", "o">>, JStr(nivel_educativo)>>,
                <<<<"e", "r", "r", "o", "r", "_", "i", "n", "f", "o">>, JStr(<<"Análisis automático (fallback)">>)>>,
                <<<<"l", "o", "n", "g", "i", "t", "u", "d", "_", "t", "e", "x", "t", "o">>, JInt(Len(texto))>>,
                <<<<"p", "a", "l", "a", "b", "r", "a", "s", "_", "u", "n", "i", "c", "a", "s">>, JInt(Cardinality(SplitSet(texto)))>>,
                <<<<"d", "e", "n", "s", "i", "d", "a", "d", "_", "v", "o", "c", "a", "b", "u", "l", "a", "r", "i", "o">>, densidad_vocabulario(texto)>> >>)

(***************************************************************************)
(* diagnosticar_error_gemini: error is the text of str(error)              *)
(***************************************************************************)
DIAG_CUOTA == <<"Cuota de API alcanzada - Has excedido el límite de requests">>
DIAG_KEY_INVALIDA == <<"API Key inválida - Verifica tu clave de Google AI">>
DIAG_NO_AUTORIZADO == <<"No autorizado - API Key incorrecta o expirada">>
DIAG_VELOCIDAD == <<"Límite de velocidad alcanzado - Demasiadas requests por minuto">>
DIAG_CONEXION == <<"Error de conexión - Problema de red o internet">>
DIAG_TIMEOUT == <<"Timeout - La request tardó demasiado en responder">>
DIAG_JSON == <<"Error de formato JSON - Respuesta malformada de Gemini">>
DIAG_MODELO == <<"Modelo no disponible - Error con el modelo de IA">>
DIAG_DESCONOCIDO == <<"Error desconocido: ">>

diagnosticar_error_gemini(error) ==
    LET error_str == lower(error)
    IN IF contains(error_str, <<"q", "u", "o", "t", "a">>) \/ contains(error_str, <<"l", "i", "m", "i", "t">>) THEN DIAG_CUOTA
       ELSE IF contains(error_str, <<"i", "n", "v", "a", "l", "i", "d">>) /\ contains(error_str, <<"k", "e", "y">>) THEN DIAG_KEY_INVALIDA
       ELSE IF contains(error_str, <<"u", "n", "a", "u", "t", "h", "o", "r", "i", "z", "e", "d">>) \/ contains(error_str, <<"4", "0", "1">>) THEN DIAG_NO_AUTORIZADO
       ELSE IF contains(error_str, <<"r", "a", "t", "e">>) /\ contains(error_str, <<"l", "i", "m", "i", "t">>) THEN DIAG_VELOCIDAD
       ELSE IF contains(error_str, <<"n", "e", "t", "w", "o", "r", "k">>) \/ contains(error_str, <<"c", "o", "n", "n", "e", "c", "t", "i", "o", "n">>) THEN DIAG_CONEXION
       ELSE IF contains(error_str, <<"t", "i", "m", "e", "o", "u", "t">>) THEN DIAG_TIMEOUT
       ELSE IF contains(error_str, <<"j", "s", "o", "n">>) THEN DIAG_JSON
       ELSE IF contains(error_str, <<"m", "o", "d", "e", "l">>) THEN DIAG_MODELO
       ELSE DIAG_DESCONOCIDO \o error

(***************************************************************************)
(* limpiar_respuesta_gemini                                                *)
(***************************************************************************)
FENCE_JSON == <<BACKTICK, BACKTICK, BACKTICK, "j", "s", "o", "n">>
FENCE == <<BACKTICK, BACKTICK, BACKTICK>>

limpiar_respuesta_gemini(response_text) ==
    IF response_text = <<>> THEN <<>>
    ELSE LET sin_markdown == IF startswith(response_text, FENCE_JSON)
                             THEN replace(replace(response_text, FENCE_JSON, <<>>), FENCE, <<>>)
                             ELSE response_text
             recortada == strip(sin_markdown)
         IN replace(replace(recortada, <<BS, "n">>, <<NL>>), <<BS, "t">>, <<TAB>>)

(***************************************************************************)
(* transformar_respuesta_gemini                                            *)
(* The result is the tuple the code returns: the report as JSON text,      *)
(* whether the AI produced it, and the message.                            *)
(***************************************************************************)
MSG_EXITO == <<"Análisis exitoso con IA">>
MSG_ERROR_TRANSFORMANDO == <<"Error transformando respuesta: ">>

\* a < n as Python evaluates it for a value of the json module and an int:
\* defined for int, float and bool, a TypeError for every other type.
Comparable(a) == a.t \in {"int", "float", "bool"}
LessThan(a, n) ==
    CASE a.t = "int" -> a.v < n
      [] a.t = "float" -> a.v[1] < n * Pow10(a.v[2])
      [] a.t = "bool" -> (IF a.v THEN 1 ELSE 0) < n

\* What a function call comes to: it returns ret, or an exception whose
\* str() is exc leaves it.  str(e) of an exception of the json module or of
\* the interpreter is stood for by the name of its class.
Returns(ret) == [raised |-> FALSE, exc |-> <<>>, ret |-> ret]
Raises(exc) == [raised |-> TRUE, exc |-> exc, ret |-> <<>>]

\* A faulty variant of ColorLabel: the thresholds belong to the lower tier.
ColorLabelInclusivo(porcentaje) ==
    IF ~LessThan(porcentaje, 51) THEN
        IF ~LessThan(porcentaje, 76) THEN <<<<"r", "e", "d">>, <<"A", "l", "t", "o">>>> ELSE <<<<"y", "e", "l", "l", "o", "w">>, <<"M", "e", "d", "i", "o">>>>
    ELSE <<<<"g", "r", "e", "e", "n">>, <<"B", "a", "j", "o">>>>

\* Lines 134-142: <<color, label>> for a porcentaje that can be compared
\* with an int.
ColorLabel(porcentaje) ==
    IF LessThan(porcentaje, 50) THEN <<<<"g", "r", "e", "e", "n">>, <<"B", "a", "j", "o">>>>
    ELSE IF LessThan(porcentaje, 75) THEN <<<<"y", "e", "l", "l", "o", "w">>, <<"M", "e", "d", "i", "o">>>>
    ELSE <<<<"r", "e", "d">>, <<"A", "l", "t", "o">>>>

\* Lines 133-160: the complete report and the returned tuple.  The
\* comparison of line 134 raises for a porcentaje that is no number.
ResultadoCompleto(porcentaje, indicadores, preguntas, texto, nivel_educativo) ==
    IF ~Comparable(porcentaje) THEN Raises(<<"TypeError">>)
    ELSE Returns(<<json_dumps(JDict(<<
                     <<<<"p", "o", "r", "c", "e", "n", "t", "a", "j", "e">>, porcentaje>>,
                     <<<<"c", "o", "l", "o", "r">>, JStr(ColorLabel(porcentaje)[1])>>,
                     <<<<"l", "a", "b", "e", "l">>, JStr(ColorLabel(porcentaje)[2])>>,
                     <<<<"i", "n", "d", "i", "c", "a", "d", "o", "r", "e", "s">>, indicadores>>,
                     <<<<"p", "r", "e", "g", "u", "n", "t", "a", "s">>, preguntas>>,
                     <<<<"f", "i", "l", "e", "n", "a", "m", "e">>, JStr(<<>>)>>,
                     <<<<"a", "n", "a", "l", "i", "z", "a", "d", "o", "_", "c", "o", "n", "_", "i", "a">>, JBool(TRUE)>>,
                     <<<<"n", "i", "v", "e", "l", "_", "e", "d", "u", "c", "a", "t", "i", "v", "o">>, JStr(nivel_educativo)>>,
                     <<<<"e", "r", "r", "o", "r", "_", "i", "n", "f", "o">>, JStr(MSG_EXITO)>>,
                     <<<<"l", "o", "n", "g", "i", "t", "u", "d", "_", "t", "e", "x", "t", "o">>, JInt(Len(texto))>>,
                     <<<<"p", "a", "l", "a", "b", "r", "a", "s", "_", "u", "n", "i", "c", "a", "s">>, JInt(Cardinality(SplitSet(texto)))>>,
                     <<<<"d", "e", "n", "s", "i", "d", "a", "d", "_", "v", "o", "c", "a", "b", "u", "l", "a", "r", "i", "o">>, densidad_vocabulario(texto)>> >>)),
                   TRUE, MSG_EXITO>>)

\* Lines 129-131 on the outcome of json.loads (line 126): data.get raises for anything
\* but a dict.
ExtraerDatos(parsed, texto, nivel_educativo) ==
    IF ~parsed.ok THEN Raises(<<"JSONDecodeError">>)
    ELSE IF parsed.val.t # "dict" THEN Raises(<<"AttributeError">>)
    ELSE ResultadoCompleto(DictGet(parsed.val, <<"p", "o", "r", "c", "e", "n", "t", "a", "j", "e">>, JInt(50)),
                           DictGet(parsed.val, <<"i", "n", "d", "i", "c", "a", "d", "o", "r", "e", "s">>, JList(<<>>)),
                           DictGet(parsed.val, <<"p", "r", "e", "g", "u", "n", "t", "a", "s">>, JList(<<>>)),
                           texto, nivel_educativo)

\* The try block (lines 124-160).
TryTransformar(respuesta_gemini, texto, nivel_educativo) ==
    ExtraerDatos(json_loads(respuesta_gemini), texto, nivel_educativo)

\* A faulty variant of RetornoFallback: the flag says the AI produced the
\* report.
RetornoFallbackConBandera(texto, nivel_educativo, mensaje) ==
    Returns(<<json_dumps(analisis_fallback(texto, nivel_educativo)), TRUE, mensaje>>)

\* The tuple every fallback return gives: the heuristic report as JSON text,
\* False and the message.
RetornoFallback(texto, nivel_educativo, mensaje) ==
    Returns(<<json_dumps(analisis_fallback(texto, nivel_educativo)), FALSE, mensaje>>)

\* The except clause (lines 162-164) on the outcome of the try block.
ExceptTransformar(try, texto, nivel_educativo) ==
    IF ~try.raised THEN try
    ELSE RetornoFallback(texto, nivel_educativo, MSG_ERROR_TRANSFORMANDO \o try.exc)

transformar_respuesta_gemini(respuesta_gemini, texto, nivel_educativo) ==
    ExceptTransformar(TryTransformar(respuesta_gemini, texto, nivel_educativo), texto, nivel_educativo)

(***************************************************************************)
(* analizar_con_gemini                                                     *)
(* llm is what model.generate_content(prompt) does on this call:           *)
(*   [kind |-> "raise", msg, text]   an exception whose str() is msg       *)
(*   [kind |-> "None", ...]          the response is None                  *)
(*   [kind |-> "notext", ...]        a response without a text attribute   *)
(*   [kind |-> "text", text, ...]    a response whose text is text (a str  *)
(*                                    or None)                             *)
(* The prompt (the level description and texto[:1500]) only feeds the      *)
(* external model, whose answer is unconstrained here.                     *)
(***************************************************************************)
MSG_TEXTO_VACIO == <<"Texto vacío">>
MSG_SIN_API_KEY == <<"API Key no configurada">>
MSG_RESPUESTA_VACIA == <<"Gemini devolvió respuesta vacía">>
MSG_SIN_TEXTO == <<"Respuesta de Gemini no tiene texto">>

\* The call to generate_content is reached.
LlamaGemini(texto, key) == strip(texto) # <<>> /\ key # <<>> /\ key # PLACEHOLDER_KEY

\* Lines 226-258: the message of the fallback return the try block takes
\* before it cleans the answer, <<>> when it takes none.
MensajeSinRespuesta(key, llm) ==
    IF key = <<>> \/ key = PLACEHOLDER_KEY THEN MSG_SIN_API_KEY
    ELSE IF llm.kind = "None" THEN MSG_RESPUESTA_VACIA
    ELSE IF llm.kind = "notext" THEN MSG_SIN_TEXTO
    ELSE IF llm.kind = "text" /\ (llm.text.t = "NoneType" \/ llm.text.v = <<>> \/ strip(llm.text.v) = <<>>)
    THEN MSG_RESPUESTA_VACIA
    ELSE <<>>

\* The try block (lines 220-282).
TryAnalizarConGemini(texto, nivel_educativo, key, llm) ==
    IF MensajeSinRespuesta(key, llm) # <<>>
    THEN RetornoFallback(texto, nivel_educativo, MensajeSinRespuesta(key, llm))
    ELSE IF llm.kind = "raise" THEN Raises(llm.msg)
    ELSE transformar_respuesta_gemini(limpiar_respuesta_gemini(llm.text.v), texto, nivel_educativo)

\* A faulty variant of ExceptAnalizarConGemini: the exception is not caught.
ExceptAnalizarConGeminiRelanza(try, texto, nivel_educativo) == try

\* The except clause (lines 284-289) on the outcome of the try block.
ExceptAnalizarConGemini(try, texto, nivel_educativo) ==
    IF ~try.raised THEN try
    ELSE RetornoFallback(texto, nivel_educativo, diagnosticar_error_gemini(try.exc))

\* The whole function: the empty-text return (lines 172-173), the try block
\* and its except clause.
analizar_con_gemini(texto, nivel_educativo, key, llm) ==
    IF strip(texto) = <<>>
    THEN RetornoFallback(texto, nivel_educativo, MSG_TEXTO_VACIO)
    ELSE ExceptAnalizarConGemini(TryAnalizarConGemini(texto, nivel_educativo, key, llm), texto, nivel_educativo)

(***************************************************************************)
(* Files                                                                   *)
(* The content of a file is what the readers can get out of it: text is    *)
(* the text a reader yields before strip(), parses says whether the docx   *)
(* and pdf libraries can open it, size is its length in bytes.             *)
(***************************************************************************)
EmptyFile == [text |-> <<>>, parses |-> FALSE, size |-> 0]

OCR_NO_DISPONIBLE == <<"O", "C", "R", " ", "n", "o", " ", "d", "i", "s", "p", "o", "n", "i", "b", "l", "e", " ", "-", " ", "I", "n", "s", "t", "a", "l", "a", " ", "o", "p", "e", "n", "c", "v", "-", "p", "y", "t", "h", "o", "n", " ", "y", " ", "p", "y", "t", "e", "s", "s", "e", "r", "a", "c", "t", " ", "p", "a", "r", "a", " ", "p", "r", "o", "c", "e", "s", "a", "r", " ", "i", "m", "á", "g", "e", "n", "e", "s">>

\* os.path.splitext(filename)[1]: from the last dot of the last path
\* component on, unless only dots precede it there.
splitext_ext(filename) ==
    LET sep == Max({0} \cup {i \in 1..Len(filename) : filename[i] = "/"})
        dot == Max({0} \cup {i \in (sep + 1)..Len(filename) : filename[i] = "."})
    IN IF dot > sep /\ \E k \in (sep + 1)..(dot - 1) : filename[k] # "."
       THEN SubSeq(filename, dot, Len(filename))
       ELSE <<>>

\* The name tempfile.NamedTemporaryFile(suffix=...) gives its n-th file.
TempPath(n, suffix) == <<"/", "t", "m", "p", "/", "t", "m", "p">> \o IntDigits(n) \o suffix

\* extraer_texto_imagen: the OCR placeholder, whatever the file holds.
extraer_texto_imagen(file_path) == OCR_NO_DISPONIBLE

\* extraer_texto(file_path) with the directory dir holding the file; any
\* exception of a reader is caught and gives "".
extraer_texto(file_path, dir) ==
    LET extension == lower(file_path)
        exists == file_path \in DOMAIN dir
    IN IF endswith(extension, <<".", "t", "x", "t">>)
       THEN IF exists THEN strip(dir[file_path].text) ELSE <<>>
       ELSE IF endswith(extension, <<".", "d", "o", "c", "x">>) \/ endswith(extension, <<".", "p", "d", "f">>)
       THEN IF exists /\ dir[file_path].parses THEN strip(dir[file_path].text) ELSE <<>>
       ELSE IF \E ext \in IMAGE_EXTENSIONS : endswith(extension, ext)
       THEN strip(extraer_texto_imagen(file_path))
       ELSE <<>>

(***************************************************************************)
(* POST /analizar                                                          *)
(* A request is [file, nivel]: file is [present, filename, content]        *)
(* (request.files.get("file")), nivel is a str or None                     *)
(* (request.form.get("nivel")).  A response is [status, body].             *)
(***************************************************************************)
ERR_SIN_ARCHIVO == <<"No se seleccionó ningún archivo">>
ERR_SIN_NIVEL == <<"Por favor selecciona un nivel educativo">>
ERR_TIPO == <<"Tipo de archivo no permitido. Use .txt, .docx, .pdf, .jpg, .png">>
ERR_TAMANO == <<"Archivo demasiado grande. Máximo 10MB">>
ERR_PROCESANDO == <<"Error procesando archivo: ">>
MSG_NO_EXTRAIDO == <<"No se pudo extraer texto del documento">>
MSG_ERROR_PARSEANDO == <<"Error parseando respuesta de IA">>

NoResponse == [status |-> 0, body |-> JNone]
Response(status, body) == [status |-> status, body |-> body]
ErrorResponse(status, message) == Response(status, JDict(<< <<<<"e", "r", "r", "o", "r">>, JStr(message)>> >>))

\* A faulty variant of ValidationError: a file of exactly MAX_FILE_SIZE bytes
\* is too large.
ValidationErrorEstricta(req) ==
    IF ~req.file.present \/ req.file.filename = <<>> THEN ERR_SIN_ARCHIVO
    ELSE IF req.nivel.t = "NoneType" \/ req.nivel.v = <<>> THEN ERR_SIN_NIVEL
    ELSE IF ~allowed_file(req.file.filename) THEN ERR_TIPO
    ELSE IF req.file.content.size >= MAX_FILE_SIZE THEN ERR_TAMANO
    ELSE <<>>

\* The validation of lines 378-398: the message of the 400 response, or <<>>
\* when the request passes.
ValidationError(req) ==
    IF ~req.file.present \/ req.file.filename = <<>> THEN ERR_SIN_ARCHIVO
    ELSE IF req.nivel.t = "NoneType" \/ req.nivel.v = <<>> THEN ERR_SIN_NIVEL
    ELSE IF ~allowed_file(req.file.filename) THEN ERR_TIPO
    ELSE IF req.file.content.size > MAX_FILE_SIZE THEN ERR_TAMANO
    ELSE <<>>

\* The response for an empty extracted text (lines 413-424).
NoDetectado(filename) ==
    Response(200, JDict(<< <<<<"p", "o", "r", "c", "e", "n", "t", "a", "j", "e">>, JInt(0)>>,
                           <<<<"c", "o", "l", "o", "r">>, JStr(<<"g", "r", "a", "y">>)>>,
                           <<<<"l", "a", "b", "e", "l">>, JStr(<<"No detectado">>)>>,
                           <<<<"i", "n", "d", "i", "c", "a", "d", "o", "r", "e", "s">>, JList(<<JStr(MSG_NO_EXTRAIDO)>>)>>,
                           <<<<"p", "r", "e", "g", "u", "n", "t", "a", "s">>, JList(<<>>)>>,
                           <<<<"f", "i", "l", "e", "n", "a", "m", "e">>, JStr(filename)>>,
                           <<<<"a", "n", "a", "l", "i", "z", "a", "d", "o", "_", "c", "o", "n", "_", "i", "a">>, JBool(FALSE)>>,
                           <<<<"e", "r", "r", "o", "r", "_", "i", "n", "f", "o">>, JStr(MSG_NO_EXTRAIDO)>> >>))

\* Lines 444-464: the outward report from the parsed report; capitalize
\* raises for a label that is no str, data.get for a data that is no dict.
ResultadoFinal(data, analizado_con_ia, error_info, filename, nivel) ==
    IF data.t # "dict" THEN Raises(<<"AttributeError">>)
    ELSE IF DictGet(data, <<"l", "a", "b", "e", "l">>, JStr(<<"m", "e", "d", "i", "o">>)).t # "str" THEN Raises(<<"AttributeError">>)
    ELSE Returns(Response(200,
            JDict(<< <<<<"p", "o", "r", "c", "e", "n", "t", "a", "j", "e">>, DictGet(data, <<"p", "o", "r", "c", "e", "n", "t", "a", "j", "e">>, JInt(50))>>,
                     <<<<"c", "o", "l", "o", "r">>, DictGet(data, <<"c", "o", "l", "o", "r">>, JStr(<<"g", "r", "a", "y">>))>>,
                     <<<<"l", "a", "b", "e", "l">>, JStr(capitalize(DictGet(data, <<"l", "a", "b", "e", "l">>, JStr(<<"m", "e", "d", "i", "o">>)).v))>>,
                     <<<<"i", "n", "d", "i", "c", "a", "d", "o", "r", "e", "s">>, DictGet(data, <<"i", "n", "d", "i", "c", "a", "d", "o", "r", "e", "s">>, JList(<<>>))>>,
                     <<<<"p", "r", "e", "g", "u", "n", "t", "a", "s">>, DictGet(data, <<"p", "r", "e", "g", "u", "n", "t", "a", "s">>, JList(<<>>))>>,
                     <<<<"f", "i", "l", "e", "n", "a", "m", "e">>, JStr(filename)>>,
                     <<<<"a", "n", "a", "l", "i", "z", "a", "d", "o", "_", "c", "o", "n", "_", "i", "a">>, JBool(analizado_con_ia)>>,
                     <<<<"n", "i", "v", "e", "l", "_", "e", "d", "u", "c", "a", "t", "i", "v", "o">>, JStr(nivel)>>,
                     <<<<"e", "r", "r", "o", "r", "_", "i", "n", "f", "o">>, JStr(error_info)>>,
                     <<<<"l", "o", "n", "g", "i", "t", "u", "d", "_", "t", "e", "x", "t", "o">>, DictGet(data, <<"l", "o", "n", "g", "i", "t", "u", "d", "_", "t", "e", "x", "t", "o">>, JInt(0))>>,
                     <<<<"p", "a", "l", "a", "b", "r", "a", "s", "_", "u", "n", "i", "c", "a", "s">>, DictGet(data, <<"p", "a", "l", "a", "b", "r", "a", "s", "_", "u", "n", "i", "c", "a", "s">>, JInt(0))>>,
                     <<<<"d", "e", "n", "s", "i", "d", "a", "d", "_", "v", "o", "c", "a", "b", "u", "l", "a", "r", "i", "o">>, DictGet(data, <<"d", "e", "n", "s", "i", "d", "a", "d", "_", "v", "o", "c", "a", "b", "u", "l", "a", "r", "i", "o">>, JInt(0))>> >>)))

\* Lines 434-441 on the outcome of json.loads(resultado).
ParsearResultado(parsed, analizado_con_ia, error_info, texto, filename, nivel) ==
    IF parsed.ok
    THEN ResultadoFinal(parsed.val, analizado_con_ia, error_info, filename, nivel)
    ELSE ResultadoFinal(analisis_fallback(texto, nivel), FALSE, MSG_ERROR_PARSEANDO, filename, nivel)

\* Lines 428-464 on the outcome of the call to analizar_con_gemini.
TrasAnalizar(call, texto, filename, nivel) ==
    IF call.raised THEN Raises(call.exc)
    ELSE ParsearResultado(json_loads(call.ret[1]), call.ret[2], call.ret[3], texto, filename, nivel)

\* Lines 426-464: the analysis of a non-empty text and the shaping of the
\* report.
TryAnalizar(texto, filename, nivel, key, llm) ==
    TrasAnalizar(analizar_con_gemini(texto, nivel, key, llm), texto, filename, nivel)

\* The except clause of lines 466-468 on the outcome of the try block.
ExceptAnalizar(try) ==
    IF try.raised THEN ErrorResponse(500, ERR_PROCESANDO \o try.exc) ELSE try.ret

\* Lines 410-468 once the upload is saved: the response the handler has
\* ready when it reaches the finally clause.
ProcesarArchivo(texto, filename, nivel, key, llm) ==
    IF texto = <<>> THEN NoDetectado(filename)
    ELSE ExceptAnalizar(TryAnalizar(texto, filename, nivel, key, llm))

(***************************************************************************)
(* Bounded inputs                                                          *)
(***************************************************************************)
\* Texts: lead spaces, then n tokens separated by one space, then dots
\* periods.  Token j is the two-letter word number (j - 1) % d followed by
\* pad letters x; the periods, if any, belong to the last token.
MaxLead == 1
MaxTokens == 20
MaxDistinct == 16
MaxPad == 4
MaxDots == 3

WordLetters == <<"a", "b", "c", "d", "e">>
GenText(lead, n, d, pad, dots) ==
    LET wl == 2 + pad
        body == IF n = 0 THEN 0 ELSE n * wl + (n - 1)
        char(k) == LET w == ((k - 1) \div (wl + 1)) % d
                       r == (k - 1) % (wl + 1)
                   IN IF r = wl THEN " "
                      ELSE IF r = 0 THEN WordLetters[(w \div 5) + 1]
                      ELSE IF r = 1 THEN WordLetters[(w % 5) + 1]
                      ELSE "x"
    IN [k \in 1..(lead + body + dots) |->
          IF k <= lead THEN " "
          ELSE IF k <= lead + body THEN char(k - lead)
          ELSE "."]

\* A few texts for the specifications that do more than score a text: empty,
\* blank, short, repetitive, long and varied.
TextosBreves ==
    { GenText(0, 0, 1, 0, 0), GenText(MaxLead + 1, 0, 1, 0, 0), GenText(MaxLead, 3, 3, 0, 1),
      GenText(0, 11, 6, 0, 0), GenText(0, MaxTokens, MaxDistinct, MaxPad, MaxDots) }

Niveles == {<<"b", "a", "s", "i", "c", "a", "-", "1", "-", "4">>, <<"m", "e", "d", "i", "o", "-", "3", "-", "4">>, <<"s", "u", "p", "e", "r", "i", "o", "r">>, <<"o", "t", "r", "o">>}

\* Messages of exceptions: up to MaxErrorWords words separated by a space.
MaxErrorWords == 2
ErrorWords == << <<"q", "u", "o", "t", "a">>, <<"l", "i", "m", "i", "t">>, <<"i", "n", "v", "a", "l", "i", "d">>, <<"k", "e", "y">>, <<"u", "n", "a", "u", "t", "h", "o", "r", "i", "z", "e", "d">>, <<"4", "0", "1">>, <<"r", "a", "t", "e">>, <<"n", "e", "t", "w", "o", "r", "k">>,
                 <<"c", "o", "n", "n", "e", "c", "t", "i", "o", "n">>, <<"t", "i", "m", "e", "o", "u", "t">>, <<"j", "s", "o", "n">>, <<"m", "o", "d", "e", "l">>, <<"R", "a", "t", "e">>, <<"L", "I", "M", "I", "T">>, <<"b", "o", "o", "m">> >>
RECURSIVE JoinWords(_)
JoinWords(ws) ==
    IF ws = <<>> THEN <<>>
    ELSE IF Len(ws) = 1 THEN ErrorWords[ws[1]]
    ELSE ErrorWords[ws[1]] \o <<" ">> \o JoinWords(Tail(ws))
ErrorMessages ==
    UNION {{JoinWords(ws) : ws \in [1..k -> 1..Len(ErrorWords)]} : k \in 0..MaxErrorWords}

\* What generate_content can do.
LLM(kind, msg, text) == [kind |-> kind, msg |-> msg, text |-> text]
LlmErrors ==
    {LLM("raise", m, JNone) :
        m \in {<<>>, <<"Q", "u", "o", "t", "a", " ", "e", "x", "c", "e", "e", "d", "e", "d">>, <<"I", "n", "v", "a", "l", "i", "d", " ", "A", "P", "I", " ", "k", "e", "y">>, <<"4", "0", "1", " ", "U", "n", "a", "u", "t", "h", "o", "r", "i", "z", "e", "d">>, <<"r", "a", "t", "e", " ", "l", "i", "m", "i", "t", " ", "r", "e", "a", "c", "h", "e", "d">>,
               <<"C", "o", "n", "n", "e", "c", "t", "i", "o", "n", " ", "r", "e", "s", "e", "t">>, <<"t", "i", "m", "e", "o", "u", "t">>, <<"b", "a", "d", " ", "j", "s", "o", "n">>, <<"m", "o", "d", "e", "l", " ", "n", "o", "t", " ", "f", "o", "u", "n", "d">>, <<"b", "o", "o", "m">>}}
LlmEmpty ==
    {LLM("None", <<>>, JNone), LLM("notext", <<>>, JNone), LLM("text", <<>>, JNone),
     LLM("text", <<>>, JStr(<<>>)), LLM("text", <<>>, JStr(<<" ", "\n", " ">>))}

\* Answers of the model: a JSON object with the given text for "porcentaje"
\* (none when p is empty), for "indicadores" and for "preguntas".
Respuesta(p, ind, preg) ==
    <<"{">> \o (IF p = <<>> THEN <<>> ELSE <<"\"", "p", "o", "r", "c", "e", "n", "t", "a", "j", "e", "\"", ":", " ">> \o p \o <<",", " ">>)
        \o <<"\"", "i", "n", "d", "i", "c", "a", "d", "o", "r", "e", "s", "\"", ":", " ">> \o ind \o <<",", " ", "\"", "p", "r", "e", "g", "u", "n", "t", "a", "s", "\"", ":", " ">> \o preg \o <<"}">>
PorcentajeTexts ==
    { <<>>, <<"0">>, <<"4", "9">>, <<"5", "0">>, <<"7", "4">>, <<"7", "5">>, <<"8", "2">>, <<"1", "0", "0">>, <<"1", "0", "1">>, <<"1", "5", "0">>, <<"-", "5">>, <<"8", "2", ".", "5">>, <<"4", "9", ".", "9">>, <<"7", "4", ".", "5", "0">>,
      <<"\"", "8", "2", "\"">>, <<"n", "u", "l", "l">>, <<"t", "r", "u", "e">>, <<"[", "8", "2", "]">> }
Fenced(body) == <<BACKTICK, BACKTICK, BACKTICK, "j", "s", "o", "n", "\n">> \o body \o <<"\n", BACKTICK, BACKTICK, BACKTICK>>
LlmJson ==
    {LLM("text", <<>>, JStr(Respuesta(p, <<"[", "\"", "x", "\"", "]">>, <<"[", "\"", "y", "\"", "]">>))) : p \in PorcentajeTexts}
    \cup {LLM("text", <<>>, JStr(Fenced(Respuesta(p, <<"[", "\"", "x", "\"", ",", " ", "\"", "z", "\"", "]">>, <<"[", "]">>)))) : p \in {<<"8", "2">>, <<"3", "0">>, <<"1", "5", "0">>}}
    \cup {LLM("text", <<>>, JStr(t)) :
            t \in { <<"L", "o", " ", "s", "i", "e", "n", "t", "o", ",", " ", "n", "o", " ", "p", "u", "e", "d", "o">>, <<"{", "\"", "p", "o", "r", "c", "e", "n", "t", "a", "j", "e", "\"", ":", " ", "8", "2">>, <<"{", "p", "o", "r", "c", "e", "n", "t", "a", "j", "e", ":", " ", "8", "2", "}">>, <<"[", "1", ",", " ", "2", "]">>, <<"8", "2">>,
                    <<"\"", "h", "o", "l", "a", "\"">>, <<"n", "u", "l", "l">>, <<"{", "}">>, <<"{", "\"", "p", "o", "r", "c", "e", "n", "t", "a", "j", "e", "\"", ":", " ", "6", "0", ",", " ", "\"", "i", "n", "d", "i", "c", "a", "d", "o", "r", "e", "s", "\"", ":", " ", "n", "u", "l", "l", ",", " ", "\"", "p", "r", "e", "g", "u", "n", "t", "a", "s", "\"", ":", " ", "n", "u", "l", "l", "}">>,
                    <<" ", BACKTICK, BACKTICK, BACKTICK, "j", "s", "o", "n", "\n", "{", "\"", "p", "o", "r", "c", "e", "n", "t", "a", "j", "e", "\"", ":", " ", "8", "2", "}", "\n", BACKTICK, BACKTICK, BACKTICK>>, <<"{", "\"", "p", "o", "r", "c", "e", "n", "t", "a", "j", "e", "\"", ":", " ", "8", "2", ",", " ", "\"", "i", "n", "d", "i", "c", "a", "d", "o", "r", "e", "s", "\"", ":", " ", "[", "\"", "a", "\\", "n", "b", "\"", "]", "}">> }}
LlmOutcomes == LlmErrors \cup LlmEmpty \cup LlmJson
\* Fewer of them for the request handler.
LlmJsonBreve ==
    {LLM("text", <<>>, JStr(Respuesta(p, <<"[", "\"", "x", "\"", "]">>, <<"[", "\"", "y", "\"", "]">>))) :
        p \in {<<>>, <<"0">>, <<"4", "9">>, <<"4", "9", ".", "9">>, <<"5", "0">>, <<"7", "4">>, <<"7", "4", ".", "5", "0">>, <<"7", "5">>, <<"1", "0", "0">>, <<"1", "5", "0">>, <<"-", "5">>, <<"8", "2", ".", "5">>, <<"\"", "8", "2", "\"">>, <<"n", "u", "l", "l">>}}
    \cup {LLM("text", <<>>, JStr(t)) :
            t \in { Fenced(Respuesta(<<"8", "2">>, <<"[", "\"", "x", "\"", "]">>, <<"[", "\"", "y", "\"", "]">>)), <<"L", "o", " ", "s", "i", "e", "n", "t", "o", ",", " ", "n", "o", " ", "p", "u", "e", "d", "o">>, <<"[", "1", ",", " ", "2", "]">>,
                    <<"{", "\"", "p", "o", "r", "c", "e", "n", "t", "a", "j", "e", "\"", ":", " ", "6", "0", ",", " ", "\"", "i", "n", "d", "i", "c", "a", "d", "o", "r", "e", "s", "\"", ":", " ", "n", "u", "l", "l", ",", " ", "\"", "p", "r", "e", "g", "u", "n", "t", "a", "s", "\"", ":", " ", "n", "u", "l", "l", "}">> }}
LlmBreve ==
    {LLM("raise", m, JNone) : m \in {<<>>, <<"r", "a", "t", "e", " ", "l", "i", "m", "i", "t", " ", "r", "e", "a", "c", "h", "e", "d">>, <<"b", "o", "o", "m">>}} \cup LlmEmpty \cup LlmJsonBreve
\* generate_content is not reached.
NoLlm == LLM("None", <<>>, JNone)

\* GOOGLE_API_KEY: the placeholder of the example file, or a key.  Without a
\* value the module raises at import (line 17) and serves no request.
ApiKeys == {PLACEHOLDER_KEY, <<"A", "I", "z", "a", "S", "y", "A", "-", "c", "l", "a", "v", "e">>}

\* Fenced answers for the cleaning of the response: what precedes the fence,
\* what follows it, and the strings inside the JSON.
FencePrefixes == {<<BACKTICK, BACKTICK, BACKTICK, "j", "s", "o", "n", "\n">>, <<BACKTICK, BACKTICK, BACKTICK, "j", "s", "o", "n">>, <<BACKTICK, BACKTICK, BACKTICK, "j", "s", "o", "n", " ", "\n">>, <<" ", BACKTICK, BACKTICK, BACKTICK, "j", "s", "o", "n", "\n">>, <<"\n", BACKTICK, BACKTICK, BACKTICK, "j", "s", "o", "n", "\n">>}
FenceSuffixes == {<<"\n", BACKTICK, BACKTICK, BACKTICK>>, <<BACKTICK, BACKTICK, BACKTICK>>, <<"\n", BACKTICK, BACKTICK, BACKTICK, "\n">>, <<"\n", BACKTICK, BACKTICK, BACKTICK, " ">>}
StringTexts == {<<"\"", "x", "\"">>, <<"\"", "a", " ", "b", "\"">>, <<"\"", "a", "\\", "n", "b", "\"">>, <<"\"", "a", "\\", "t", "b", "\"">>, <<"\"", "a", BACKTICK, BACKTICK, BACKTICK, "b", "\"">>, <<"\"", "a", BACKTICK, "b", "\"">>, <<"\"", "a", "\\", "\"", "b", "\"">>, <<"\"", "a", "\\", "\\", "b", "\"">>}
PorcentajesValidos == {<<"0">>, <<"4", "9">>, <<"5", "0">>, <<"7", "4">>, <<"7", "5">>, <<"8", "2">>, <<"1", "0", "0">>}
FencedAnswers ==
    {[prefix |-> pre, suffix |-> suf, porcentaje |-> p, indicador |-> s, pregunta |-> q] :
        pre \in FencePrefixes, suf \in FenceSuffixes, p \in PorcentajesValidos,
        s \in StringTexts, q \in {<<"\"", "y", "\"">>, <<"\"", "a", "\\", "n", "b", "\"">>}}
FencedText(a) ==
    a.prefix \o Respuesta(a.porcentaje, <<"[">> \o a.indicador \o <<"]">>, <<"[">> \o a.pregunta \o <<"]">>) \o a.suffix

\* Uploads.
Filenames == {<<"a", ".", "t", "x", "t">>, <<"A", ".", "T", "X", "T">>, <<"a", ".", "p", "d", "f">>, <<"a", ".", "p", "n", "g">>, <<".", "t", "x", "t">>, <<"a", ".", "e", "x", "e">>, <<>>}
Contents ==
    {[text |-> t, parses |-> TRUE, size |-> Len(t)] : t \in TextosBreves}
    \cup {[text |-> GenText(0, 3, 3, 0, 1), parses |-> TRUE, size |-> MAX_FILE_SIZE + over] : over \in 0..1}
    \cup {[text |-> GenText(0, 3, 3, 0, 1), parses |-> FALSE, size |-> 2048]}
NoFile == [present |-> FALSE, filename |-> <<>>, content |-> EmptyFile]
Uploads == {NoFile} \cup {[present |-> TRUE, filename |-> f, content |-> c] : f \in Filenames, c \in Contents}
FormNiveles == {JNone, JStr(<<>>), JStr(<<"b", "a", "s", "i", "c", "a", "-", "1", "-", "4">>), JStr(<<"s", "u", "p", "e", "r", "i", "o", "r">>)}
Requests == {[file |-> u, nivel |-> n] : u \in Uploads, n \in FormNiveles}
NoRequest == [file |-> NoFile, nivel |-> JNone]

\* How many temporary files the directory can hold.
MaxTempFiles == 2

(***************************************************************************)
(* State                                                                   *)
(***************************************************************************)
VARIABLES
    api_key,      \* the value of GOOGLE_API_KEY read at import
    pc,           \* where the request handler is
    request,      \* the request being handled
    temp_file,    \* the name of the handler's temporary file, <<>> for None
    tmpdir,       \* the temporary directory: file name -> content
    response,     \* the response the handler has built
    calls,        \* the collaborators called while handling the request
    gemini,       \* what generate_content did when the request called it
    arg,          \* the arguments of a function under test
    ret           \* its result

vars == <<api_key, pc, request, temp_file, tmpdir, response, calls, gemini, arg, ret>>

NoFiles == [p \in {} |-> EmptyFile]
NotCalled == [called |-> FALSE, value |-> <<>>]
Called(value) == [called |-> TRUE, value |-> value]

HandlerInit ==
    /\ pc = "idle"
    /\ request = NoRequest
    /\ temp_file = <<>>
    /\ tmpdir = NoFiles
    /\ response = NoResponse
    /\ calls = {}
    /\ gemini = NoLlm

Init ==
    /\ api_key \in ApiKeys
    /\ HandlerInit
    /\ arg = <<>>
    /\ ret = NotCalled

(***************************************************************************)
(* The request handler, analizar                                           *)
(***************************************************************************)
\* Lines 372-398: a request arrives and is validated.
Validar(req) ==
    /\ pc = "idle"
    /\ request' = req
    /\ temp_file' = <<>>
    /\ calls' = {}
    /\ gemini' = NoLlm
    /\ IF ValidationError(req) # <<>>
       THEN /\ response' = ErrorResponse(400, ValidationError(req))
            /\ pc' = "returned"
       ELSE /\ response' = NoResponse
            /\ pc' = "tempfile"
    /\ UNCHANGED <<api_key, tmpdir, arg, ret>>

\* Line 404: NamedTemporaryFile creates an empty file with a fresh name.
CrearTemporal ==
    /\ pc = "tempfile"
    /\ \E n \in 1..MaxTempFiles :
          LET path == TempPath(n, splitext_ext(request.file.filename))
          IN /\ n = Min({m \in 1..MaxTempFiles : TempPath(m, splitext_ext(request.file.filename)) \notin DOMAIN tmpdir})
             /\ temp_file' = path
             /\ tmpdir' = [p \in DOMAIN tmpdir \cup {path} |-> IF p = path THEN EmptyFile ELSE tmpdir[p]]
    /\ calls' = calls \cup {"NamedTemporaryFile"}
    /\ pc' = "save"
    /\ UNCHANGED <<api_key, request, response, gemini, arg, ret>>

\* Line 404 raising (no file is created): the except clause of line 466.
CrearTemporalFalla ==
    /\ pc = "tempfile"
    /\ calls' = calls \cup {"NamedTemporaryFile"}
    /\ response' = ErrorResponse(500, ERR_PROCESANDO \o <<"OSError">>)
    /\ pc' = "finally"
    /\ UNCHANGED <<api_key, request, temp_file, tmpdir, gemini, arg, ret>>

\* Line 406: file.save writes the upload into the temporary file.
Guardar ==
    /\ pc = "save"
    /\ tmpdir' = [tmpdir EXCEPT ![temp_file] = request.file.content]
    /\ calls' = calls \cup {"save"}
    /\ pc' = "process"
    /\ UNCHANGED <<api_key, request, temp_file, response, gemini, arg, ret>>

\* Line 406 raising: the except clause of line 466.
GuardarFalla ==
    /\ pc = "save"
    /\ calls' = calls \cup {"save"}
    /\ response' = ErrorResponse(500, ERR_PROCESANDO \o <<"OSError">>)
    /\ pc' = "finally"
    /\ UNCHANGED <<api_key, request, temp_file, tmpdir, gemini, arg, ret>>

\* Lines 410-468: extraction, analysis and the response, with what
\* generate_content does should it be called.
Procesar(llm) ==
    /\ pc = "process"
    /\ LlamaGemini(extraer_texto(temp_file, tmpdir), api_key) \/ llm = NoLlm
    /\ LET texto == extraer_texto(temp_file, tmpdir)
       IN /\ response' = ProcesarArchivo(texto, request.file.filename, request.nivel.v, api_key, llm)
          /\ calls' = calls \cup {"extraer_texto"}
                        \cup (IF texto # <<>> THEN {"analizar_con_gemini"} ELSE {})
                        \cup (IF texto # <<>> /\ LlamaGemini(texto, api_key) THEN {"generate_content"} ELSE {})
    /\ gemini' = llm
    /\ pc' = "finally"
    /\ UNCHANGED <<api_key, request, temp_file, tmpdir, arg, ret>>

\* A faulty variant of Finally: the temporary file is left in place.
FinallySinBorrar ==
    /\ pc = "finally"
    /\ pc' = "returned"
    /\ UNCHANGED <<api_key, request, temp_file, tmpdir, response, calls, gemini, arg, ret>>

\* Lines 470-474: the finally clause.
Finally ==
    /\ pc = "finally"
    /\ IF temp_file # <<>> /\ temp_file \in DOMAIN tmpdir
       THEN /\ tmpdir' = [p \in DOMAIN tmpdir \ {temp_file} |-> tmpdir[p]]
            /\ calls' = calls \cup {"unlink"}
       ELSE UNCHANGED <<tmpdir, calls>>
    /\ pc' = "returned"
    /\ UNCHANGED <<api_key, request, temp_file, response, gemini, arg, ret>>

\* The response is sent; the handler is ready for the next request.
Responder ==
    /\ pc = "returned"
    /\ pc' = "idle"
    /\ request' = NoRequest
    /\ temp_file' = <<>>
    /\ response' = NoResponse
    /\ calls' = {}
    /\ gemini' = NoLlm
    /\ UNCHANGED <<api_key, tmpdir, arg, ret>>

Next ==
    \/ \E req \in Requests : Validar(req)
    \/ CrearTemporal
    \/ CrearTemporalFalla
    \/ Guardar
    \/ GuardarFalla
    \/ \E llm \in LlmBreve : Procesar(llm)
    \/ Finally
    \/ Responder

Spec == Init /\ [][Next]_vars

(***************************************************************************)
(* analizar_con_gemini called on its own                                   *)
(* arg is [texto, nivel, llm]; the handler is idle.                        *)
(***************************************************************************)
OrchArgs ==
    {[texto |-> t, nivel |-> n, llm |-> l] : t \in TextosBreves, n \in Niveles, l \in LlmOutcomes}

InitOrch ==
    /\ api_key \in ApiKeys
    /\ HandlerInit
    /\ arg \in OrchArgs
    /\ LlamaGemini(arg.texto, api_key) \/ arg.llm = NoLlm
    /\ ret = NotCalled

LlamarAnalizarConGemini ==
    /\ ret = NotCalled
    /\ ret' = Called(analizar_con_gemini(arg.texto, arg.nivel, api_key, arg.llm))
    /\ UNCHANGED <<api_key, pc, request, temp_file, tmpdir, response, calls, gemini, arg>>

NextOrch == LlamarAnalizarConGemini

SpecOrch == InitOrch /\ [][NextOrch]_vars

(***************************************************************************)
(* analisis_fallback called on its own                                     *)
(* arg is the shape of the text (see GenText) and the level.               *)
(***************************************************************************)
DistinctCounts == {1, 6, 7, 9, 12, 14, 15, MaxDistinct}
FallbackArgs ==
    {[lead |-> lead, n |-> n, d |-> d, pad |-> pad, dots |-> dots, nivel |-> nivel] :
        lead \in 0..MaxLead, n \in 0..MaxTokens, d \in DistinctCounts,
        pad \in {0, MaxPad}, dots \in 0..MaxDots, nivel \in Niveles}
TextoDe(a) == GenText(a.lead, a.n, a.d, a.pad, a.dots)

InitFallback ==
    /\ api_key = PLACEHOLDER_KEY
    /\ HandlerInit
    /\ arg \in FallbackArgs
    /\ ret = NotCalled

LlamarAnalisisFallback ==
    /\ ret = NotCalled
    /\ ret' = Called(analisis_fallback(TextoDe(arg), arg.nivel))
    /\ UNCHANGED <<api_key, pc, request, temp_file, tmpdir, response, calls, gemini, arg>>

NextFallback == LlamarAnalisisFallback

SpecFallback == InitFallback /\ [][NextFallback]_vars

(***************************************************************************)
(* limpiar_respuesta_gemini, then transformar_respuesta_gemini             *)
(* arg is a fenced answer (see FencedAnswers); ret goes from the cleaned   *)
(* text to the tuple transformar_respuesta_gemini returns.                 *)
(***************************************************************************)
TextoAnalizado == GenText(0, 3, 3, 0, 1)

InitClean ==
    /\ api_key = PLACEHOLDER_KEY
    /\ HandlerInit
    /\ arg \in FencedAnswers
    /\ ret = NotCalled

Limpiar ==
    /\ ret = NotCalled
    /\ ret' = Called([limpia |-> limpiar_respuesta_gemini(FencedText(arg)), transformada |-> FALSE,
                      resultado |-> <<>>])
    /\ UNCHANGED <<api_key, pc, request, temp_file, tmpdir, response, calls, gemini, arg>>

Transformar ==
    /\ ret.called
    /\ ~ret.value.transformada
    /\ ret' = Called([limpia |-> ret.value.limpia, transformada |-> TRUE,
                      resultado |-> transformar_respuesta_gemini(ret.value.limpia, TextoAnalizado, <<"s", "u", "p", "e", "r", "i", "o", "r">>).ret])
    /\ UNCHANGED <<api_key, pc, request, temp_file, tmpdir, response, calls, gemini, arg>>

NextClean == Limpiar \/ Transformar

SpecClean == InitClean /\ [][NextClean]_vars

(***************************************************************************)
(* diagnosticar_error_gemini called on its own                             *)
(* arg is str(error).                                                      *)
(***************************************************************************)
InitDiag ==
    /\ api_key = PLACEHOLDER_KEY
    /\ HandlerInit
    /\ arg \in ErrorMessages
    /\ ret = NotCalled

LlamarDiagnosticar ==
    /\ ret = NotCalled
    /\ ret' = Called(diagnosticar_error_gemini(arg))
    /\ UNCHANGED <<api_key, pc, request, temp_file, tmpdir, response, calls, gemini, arg>>

NextDiag == LlamarDiagnosticar

SpecDiag == InitDiag /\ [][NextDiag]_vars

(***************************************************************************)
(* Properties                                                              *)
(***************************************************************************)
REPORT_FIELDS ==
    << <<"p", "o", "r", "c", "e", "n", "t", "a", "j", "e">>, <<"c", "o", "l", "o", "r">>, <<"l", "a", "b", "e", "l">>, <<"i", "n", "d", "i", "c", "a", "d", "o", "r", "e", "s">>, <<"p", "r", "e", "g", "u", "n", "t", "a", "s">>, <<"f", "i", "l", "e", "n", "a", "m", "e">>, <<"a", "n", "a", "l", "i", "z", "a", "d", "o", "_", "c", "o", "n", "_", "i", "a">>,
       <<"n", "i", "v", "e", "l", "_", "e", "d", "u", "c", "a", "t", "i", "v", "o">>, <<"e", "r", "r", "o", "r", "_", "i", "n", "f", "o">>, <<"l", "o", "n", "g", "i", "t", "u", "d", "_", "t", "e", "x", "t", "o">>, <<"p", "a", "l", "a", "b", "r", "a", "s", "_", "u", "n", "i", "c", "a", "s">>, <<"d", "e", "n", "s", "i", "d", "a", "d", "_", "v", "o", "c", "a", "b", "u", "l", "a", "r", "i", "o">> >>

\* The value of a field of a report, None when the report lacks it.
Campo(report, key) == DictGet(report, key, JNone)

\* lo <= p < hi for a JSON number p.
EnRango(p, lo, hi) ==
    \/ p.t = "int" /\ lo <= p.v /\ p.v < hi
    \/ p.t = "float" /\ lo * Pow10(p.v[2]) <= p.v[1] /\ p.v[1] < hi * Pow10(p.v[2])

\* 0 <= p <= 100 for a JSON number p.
De0a100(p) == EnRango(p, 0, 100) \/ p = JInt(100) \/ (p.t = "float" /\ p.v[1] = 100 * Pow10(p.v[2]))

\* The tier the specification gives a percentage.
TierEsperado(p) ==
    IF EnRango(p, 0, 50) THEN <<<<"g", "r", "e", "e", "n">>, <<"B", "a", "j", "o">>>>
    ELSE IF EnRango(p, 50, 75) THEN <<<<"y", "e", "l", "l", "o", "w">>, <<"M", "e", "d", "i", "o">>>>
    ELSE <<<<"r", "e", "d">>, <<"A", "l", "t", "o">>>>

\* The handler has answered a request whose text went through the pipeline.
RespondioConReporte == response.status = 200 /\ "analizar_con_gemini" \in calls

\* C1: every 200 response of POST /analizar holds all twelve fields of a
\* Report, none of them null.
C1_ReporteCompleto ==
    response.status = 200 =>
        \A i \in 1..Len(REPORT_FIELDS) :
            /\ DictHas(response.body, REPORT_FIELDS[i])
            /\ Campo(response.body, REPORT_FIELDS[i]) # JNone

\* The empty-text response of lines 415-424 is sent without nivel_educativo.
C1_SinTextoSinNivel ==
    /\ pc = "returned"
    /\ response.status = 200
    /\ Campo(response.body, <<"l", "a", "b", "e", "l">>) = JStr(<<"No detectado">>)
    /\ ~DictHas(response.body, <<"n", "i", "v", "e", "l", "_", "e", "d", "u", "c", "a", "t", "i", "v", "o">>)

\* C2: the porcentaje of every report analizar_con_gemini returns is an
\* integer between 0 and 100.
C2_PorcentajeEntre0y100 ==
    ret.called =>
        LET p == Campo(json_loads(ret.value.ret[1]).val, <<"p", "o", "r", "c", "e", "n", "t", "a", "j", "e">>)
        IN p.t = "int" /\ p.v \in 0..100

\* The model answered with a porcentaje of 150 and the report repeats it.
C2_Porcentaje150 ==
    /\ ret.called
    /\ ret.value.ret[2]
    /\ Campo(json_loads(ret.value.ret[1]).val, <<"p", "o", "r", "c", "e", "n", "t", "a", "j", "e">>) = JInt(150)

\* C3: in every report of either pipeline path, as the handler sends it,
\* color and label are the tier of the reported porcentaje: [0, 50) green
\* and Bajo, [50, 75) yellow and Medio, [75, 100] red and Alto.
C3_TierDelPorcentaje ==
    (RespondioConReporte /\ De0a100(Campo(response.body, <<"p", "o", "r", "c", "e", "n", "t", "a", "j", "e">>))) =>
        << Campo(response.body, <<"c", "o", "l", "o", "r">>), Campo(response.body, <<"l", "a", "b", "e", "l">>) >>
            = << JStr(TierEsperado(Campo(response.body, <<"p", "o", "r", "c", "e", "n", "t", "a", "j", "e">>))[1]),
                 JStr(TierEsperado(Campo(response.body, <<"p", "o", "r", "c", "e", "n", "t", "a", "j", "e">>))[2]) >>

\* A heuristic report whose penalties add up to 120: it is sent as 100, red, Alto.
C3_SumaRecortada ==
    /\ pc = "returned"
    /\ RespondioConReporte
    /\ request.file.content.text = GenText(0, 11, 6, 0, 0)
    /\ Campo(response.body, <<"a", "n", "a", "l", "i", "z", "a", "d", "o", "_", "c", "o", "n", "_", "i", "a">>) = JBool(FALSE)
    /\ Len(Campo(response.body, <<"i", "n", "d", "i", "c", "a", "d", "o", "r", "e", "s">>).v) = 5
    /\ Campo(response.body, <<"p", "o", "r", "c", "e", "n", "t", "a", "j", "e">>) = JInt(100)
    /\ Campo(response.body, <<"l", "a", "b", "e", "l">>) = JStr(<<"A", "l", "t", "o">>)

\* The answer of the model, cleaned, parses and expands: it is a JSON object
\* whose porcentaje, if any, is a number.
Expandible(text) ==
    LET parsed == json_loads(limpiar_respuesta_gemini(text))
    IN /\ parsed.ok
       /\ parsed.val.t = "dict"
       /\ DictGet(parsed.val, <<"p", "o", "r", "c", "e", "n", "t", "a", "j", "e">>, JInt(50)).t \in {"int", "float", "bool"}

\* The call to the model returned a text that is not blank.
TextoNoVacio(llm) == llm.kind = "text" /\ llm.text.t = "str" /\ strip(llm.text.v) # <<>>

\* C4: analizar_con_gemini never raises; its flag is true exactly when the
\* model was called, returned a non-blank text and that text, cleaned,
\* parsed and expanded; then the message is the success message, otherwise
\* the report is the heuristic one; the report's analizado_con_ia is the flag.
C4_NuncaLanza ==
    ret.called =>
        /\ ~ret.value.raised
        /\ ret.value.ret[2] = (/\ LlamaGemini(arg.texto, api_key)
                               /\ TextoNoVacio(arg.llm)
                               /\ Expandible(arg.llm.text.v))
        /\ ret.value.ret[2] => ret.value.ret[3] = MSG_EXITO
        /\ ~ret.value.ret[2] => ret.value.ret[1] = json_dumps(analisis_fallback(arg.texto, arg.nivel))
        /\ json_loads(ret.value.ret[1]).ok
        /\ Campo(json_loads(ret.value.ret[1]).val, <<"a", "n", "a", "l", "i", "z", "a", "d", "o", "_", "c", "o", "n", "_", "i", "a">>) = JBool(ret.value.ret[2])

\* generate_content raised and analizar_con_gemini returned the heuristic report.
C4_ExcepcionAbsorbida ==
    /\ ret.called
    /\ LlamaGemini(arg.texto, api_key)
    /\ arg.llm.kind = "raise"
    /\ ~ret.value.raised
    /\ ~ret.value.ret[2]
    /\ ret.value.ret[3] = DIAG_DESCONOCIDO \o <<"b", "o", "o", "m">>

\* C5: when the handler returns, the temporary file of the request no longer
\* exists, and between requests the temporary directory holds no file.
C5_TemporalBorrado ==
    /\ pc = "returned" /\ temp_file # <<>> => temp_file \notin DOMAIN tmpdir
    /\ pc \in {"idle", "returned"} => DOMAIN tmpdir = {}

\* file.save raised after the temporary file was created; the handler
\* answered 500 and removed the file.
C5_FalloAlGuardar ==
    /\ pc = "returned"
    /\ calls = {"NamedTemporaryFile", "save", "unlink"}
    /\ response.status = 500
    /\ temp_file # <<>>
    /\ temp_file \notin DOMAIN tmpdir

\* What a request violates, told from the request alone.
SinArchivo(req) == ~req.file.present \/ req.file.filename = <<>>
SinNivel(req) == req.nivel.t = "NoneType" \/ req.nivel.v = <<>>
\* The file name from its last dot on, in lower case.
Sufijo(filename) ==
    LET dots == {i \in 1..Len(filename) : filename[i] = "."}
    IN IF dots = {} THEN <<>> ELSE lower(SubSeq(filename, Max(dots), Len(filename)))
TipoNoPermitido(req) == Sufijo(req.file.filename) \notin ALLOWED_EXTENSIONS
DemasiadoGrande(req) == req.file.content.size > 10 * 1024 * 1024
Invalida(req) == SinArchivo(req) \/ SinNivel(req) \/ TipoNoPermitido(req) \/ DemasiadoGrande(req)

\* C6: a request without a file, without a level, with a file type that is
\* not allowed or with a file above 10 MiB is answered 400 with the message
\* of a violation it has, the four messages differ, nothing is staged,
\* extracted or sent to the model for it; a file of exactly 10 MiB is not
\* rejected for its size.
C6_ValidacionRechaza ==
    pc # "idle" =>
        /\ Cardinality({ERR_SIN_ARCHIVO, ERR_SIN_NIVEL, ERR_TIPO, ERR_TAMANO}) = 4
        /\ Invalida(request) =>
              /\ response.status = 400
              /\ \/ response.body = JDict(<< <<<<"e", "r", "r", "o", "r">>, JStr(ERR_SIN_ARCHIVO)>> >>) /\ SinArchivo(request)
                 \/ response.body = JDict(<< <<<<"e", "r", "r", "o", "r">>, JStr(ERR_SIN_NIVEL)>> >>) /\ SinNivel(request)
                 \/ response.body = JDict(<< <<<<"e", "r", "r", "o", "r">>, JStr(ERR_TIPO)>> >>) /\ TipoNoPermitido(request)
                 \/ response.body = JDict(<< <<<<"e", "r", "r", "o", "r">>, JStr(ERR_TAMANO)>> >>) /\ DemasiadoGrande(request)
              /\ pc = "returned"
              /\ calls = {}
              /\ temp_file = <<>>
              /\ DOMAIN tmpdir = {}
        /\ ~Invalida(request) => response.status # 400

\* A file of exactly 10 MiB got its report.
C6_DiezMiBAceptado ==
    /\ pc = "returned"
    /\ request.file.content.size = 10 * 1024 * 1024
    /\ response.status = 200
    /\ "extraer_texto" \in calls

\* The provider failed: no credential, an exception, no response, no text, a
\* blank text, or a text that is no JSON object once cleaned.
FalloDelProveedor ==
    \/ api_key = PLACEHOLDER_KEY
    \/ gemini.kind \in {"raise", "None", "notext"}
    \/ gemini.kind = "text" /\ ~TextoNoVacio(gemini)
    \/ /\ TextoNoVacio(gemini)
       /\ LET parsed == json_loads(limpiar_respuesta_gemini(gemini.text.v))
          IN ~parsed.ok \/ parsed.val.t # "dict"

\* C7: for a valid request with a non-empty extracted text, a failure of the
\* provider gives status 200 with a heuristic report, analizado_con_ia false
\* and a non-empty error_info.
C7_FalloAbsorbido ==
    (pc \in {"finally", "returned"} /\ "analizar_con_gemini" \in calls /\ FalloDelProveedor) =>
        /\ response.status = 200
        /\ Campo(response.body, <<"a", "n", "a", "l", "i", "z", "a", "d", "o", "_", "c", "o", "n", "_", "i", "a">>) = JBool(FALSE)
        /\ Campo(response.body, <<"e", "r", "r", "o", "r", "_", "i", "n", "f", "o">>).t = "str"
        /\ Campo(response.body, <<"e", "r", "r", "o", "r", "_", "i", "n", "f", "o">>).v # <<>>
        /\ Campo(response.body, <<"p", "r", "e", "g", "u", "n", "t", "a", "s">>) = JList(PREGUNTAS_FALLBACK)
        /\ Campo(response.body, <<"p", "o", "r", "c", "e", "n", "t", "a", "j", "e">>).t = "int"
        /\ Campo(response.body, <<"p", "o", "r", "c", "e", "n", "t", "a", "j", "e">>).v \in 50..100

\* generate_content raised for a request and the response is a heuristic report.
C7_ExcepcionDelModelo ==
    /\ pc = "returned"
    /\ "generate_content" \in calls
    /\ gemini.kind = "raise"
    /\ response.status = 200
    /\ Campo(response.body, <<"a", "n", "a", "l", "i", "z", "a", "d", "o", "_", "c", "o", "n", "_", "i", "a">>) = JBool(FALSE)
    /\ Campo(response.body, <<"e", "r", "r", "o", "r", "_", "i", "n", "f", "o">>) = JStr(DIAG_CUOTA)

\* The answer inside the fence, parsed.
Esperado(a) ==
    json_loads(Respuesta(a.porcentaje, <<"[">> \o a.indicador \o <<"]">>, <<"[">> \o a.pregunta \o <<"]">>))

\* C8: a valid JSON object with porcentaje, indicadores and preguntas inside
\* a json code fence is cleaned and expanded into a report with the same
\* three values, the tier of its porcentaje and the flag true, whatever
\* whitespace surrounds the fence and whatever the strings hold.
C8_RespuestaCercada ==
    (ret.called /\ ret.value.transformada /\ Esperado(arg).ok) =>
        /\ ret.value.resultado[2]
        /\ LET report == json_loads(ret.value.resultado[1]).val
           IN /\ Campo(report, <<"p", "o", "r", "c", "e", "n", "t", "a", "j", "e">>) = Campo(Esperado(arg).val, <<"p", "o", "r", "c", "e", "n", "t", "a", "j", "e">>)
              /\ Campo(report, <<"i", "n", "d", "i", "c", "a", "d", "o", "r", "e", "s">>) = Campo(Esperado(arg).val, <<"i", "n", "d", "i", "c", "a", "d", "o", "r", "e", "s">>)
              /\ Campo(report, <<"p", "r", "e", "g", "u", "n", "t", "a", "s">>) = Campo(Esperado(arg).val, <<"p", "r", "e", "g", "u", "n", "t", "a", "s">>)
              /\ Campo(report, <<"c", "o", "l", "o", "r">>) = JStr(TierEsperado(Campo(report, <<"p", "o", "r", "c", "e", "n", "t", "a", "j", "e">>))[1])
              /\ Campo(report, <<"l", "a", "b", "e", "l">>) = JStr(TierEsperado(Campo(report, <<"p", "o", "r", "c", "e", "n", "t", "a", "j", "e">>))[2])

\* Whitespace before the fence: the fence is not removed and the heuristic
\* answers.
C8_EspacioAntesDeLaCerca ==
    /\ ret.called
    /\ ret.value.transformada
    /\ arg.prefix = <<" ", BACKTICK, BACKTICK, BACKTICK, "j", "s", "o", "n", "\n">>
    /\ arg.indicador = <<"\"", "x", "\"">>
    /\ startswith(ret.value.limpia, FENCE_JSON)
    /\ ~ret.value.resultado[2]

\* What the generator of texts says about TextoDe(a).
LongitudDe(a) == a.lead + (IF a.n = 0 THEN 0 ELSE a.n * (2 + a.pad) + (a.n - 1)) + a.dots
TokensDe(a) == IF a.n = 0 THEN (IF a.dots > 0 THEN 1 ELSE 0) ELSE a.n
DistintosDe(a) ==
    IF a.n = 0 THEN TokensDe(a)
    ELSE IF a.dots = 0 THEN Min({a.n, a.d})
    ELSE Min({a.n - 1, a.d}) + 1
Penalizaciones(a) ==
    << [puntos |-> 20, indicador |-> <<"Texto muy corto">>, aplica |-> LongitudDe(a) < 100],
       [puntos |-> 15, indicador |-> <<"Pocos puntos (posible copia)">>, aplica |-> a.dots < 3],
       [puntos |-> 15, indicador |-> <<"Vocabulario limitado">>, aplica |-> DistintosDe(a) < 15],
       [puntos |-> 20, indicador |-> <<"Mucha repetición de palabras">>,
        aplica |-> TokensDe(a) > 10 /\ 10 * DistintosDe(a) < 6 * TokensDe(a)] >>
RECURSIVE Suma(_, _), Aplicados(_, _)
Suma(ps, i) == IF i > Len(ps) THEN 0 ELSE (IF ps[i].aplica THEN ps[i].puntos ELSE 0) + Suma(ps, i + 1)
Aplicados(ps, i) ==
    IF i > Len(ps) THEN <<>>
    ELSE (IF ps[i].aplica THEN <<JStr(ps[i].indicador)>> ELSE <<>>) \o Aplicados(ps, i + 1)

\* C9: the porcentaje of analisis_fallback is min(100, 50 + 20 [length < 100]
\* + 15 [periods < 3] + 15 [distinct tokens < 15] + 20 [tokens > 10 and
\* distinct / tokens < 0.6]); it lies in 50..100, the label is never Bajo,
\* and indicadores lists the penalties that fired, in that order, then one
\* indicator of the level.
C9_PuntajeHeuristico ==
    ret.called =>
        /\ Campo(ret.value, <<"p", "o", "r", "c", "e", "n", "t", "a", "j", "e">>) = JInt(Min({100, 50 + Suma(Penalizaciones(arg), 1)}))
        /\ Campo(ret.value, <<"p", "o", "r", "c", "e", "n", "t", "a", "j", "e">>).v \in 50..100
        /\ Campo(ret.value, <<"l", "a", "b", "e", "l">>) \in {JStr(<<"M", "e", "d", "i", "o">>), JStr(<<"A", "l", "t", "o">>)}
        /\ \E nivel \in { JStr(<<"Análisis básico para nivel ">> \o arg.nivel),
                          JStr(<<"Análisis para educación media">>),
                          JStr(<<"Análisis automático básico">>) } :
              Campo(ret.value, <<"i", "n", "d", "i", "c", "a", "d", "o", "r", "e", "s">>) = JList(Append(Aplicados(Penalizaciones(arg), 1), nivel))

\* Twenty tokens, twelve of them distinct: a ratio of exactly 0.6 is no
\* repetition.
C9_RatioExacto06 ==
    /\ ret.called
    /\ arg.n = 20 /\ arg.d = 12 /\ arg.dots = 0 /\ arg.pad = MaxPad /\ arg.lead = 0
    /\ Campo(ret.value, <<"p", "a", "l", "a", "b", "r", "a", "s", "_", "u", "n", "i", "c", "a", "s">>) = JInt(12)
    /\ Campo(ret.value, <<"p", "o", "r", "c", "e", "n", "t", "a", "j", "e">>) = JInt(80)

\* C10: a message that holds both "rate" and "limit" is classified as the
\* rate limit, and a message that holds none of the substrings as unknown.
C10_LimiteDeVelocidad ==
    ret.called =>
        /\ (contains(lower(arg), <<"r", "a", "t", "e">>) /\ contains(lower(arg), <<"l", "i", "m", "i", "t">>)) => ret.value = DIAG_VELOCIDAD
        /\ (\A w \in {<<"q", "u", "o", "t", "a">>, <<"l", "i", "m", "i", "t">>, <<"i", "n", "v", "a", "l", "i", "d">>, <<"k", "e", "y">>, <<"u", "n", "a", "u", "t", "h", "o", "r", "i", "z", "e", "d">>, <<"4", "0", "1">>, <<"r", "a", "t", "e">>, <<"n", "e", "t", "w", "o", "r", "k">>,
                      <<"c", "o", "n", "n", "e", "c", "t", "i", "o", "n">>, <<"t", "i", "m", "e", "o", "u", "t">>, <<"j", "s", "o", "n">>, <<"m", "o", "d", "e", "l">>} : ~contains(lower(arg), w))
              => ret.value = DIAG_DESCONOCIDO \o arg

\* "rate limit" is answered with the message of the quota.
C10_RateLimitEsCuota ==
    /\ ret.called
    /\ arg = <<"r", "a", "t", "e", " ", "l", "i", "m", "i", "t">>
    /\ ret.value = DIAG_CUOTA
=============================================================================
